---- MODULE Spec2Model ----
(***************************************************************************)
(* Project lifecycle of buildwise-backend: the project status, the         *)
(* timeline ledger and the estimate / change-order series, as they are     *)
(* written by the HTTP handlers of the project and estimate controllers    *)
(* and by ProjectService.  Every handler is split at its awaited storage   *)
(* calls, so that two requests on the same project interleave exactly      *)
(* where the event loop lets them.                                         *)
(***************************************************************************)
EXTENDS Integers, Sequences, FiniteSets, TLC

VARIABLES users, status, timeline, estimates, invoices, assignees, now, nextId,
          req, last, nreq

vars ==
  <<users, status, timeline, estimates, invoices, assignees, now, nextId, req, last,
    nreq>>

(* ---------------------------- bounds ----------------------------------- *)
MaxRequests == 2
MaxCON == 1
MaxAmount == 2
MaxAssignees == 2
MaxClock == 2

(* ---------------------------- vocabulary ------------------------------- *)
Reqs == {1, 2}
ProjectIds == {"p1", "p2"}
UserIds == {"u1", "u2", "u3"}

\* enum ProjectStatus of the storage schema
ProjectStatus ==
  {"PENDING", "ESTIMATE_READY", "APPROVED", "IN_CONSTRUCTION",
   "CHANGE_ORDER_PENDING", "COMPLETED"}

\* values a caller can put in the status field of a request body
StatusInputs == ProjectStatus \cup {"CANCELLED", ""}

\* a project row that does not exist
NoProject == "NO_PROJECT"

\* enum UserRole, as far as the role gates use it
UserRole == {"ADMIN", "TEAM_LEAD", "CUSTOMER"}

\* SQL NULL / JS undefined in the changeOrderNumber column
Null == -1

CONInputs == {Null} \cup (0 .. MaxCON)

InvoiceIds == {"i1", "i2"}

\* enum InvoiceStatus
InvoiceStatus == {"PENDING", "PAID", "OVERDUE"}

\* body.status of an invoice update ("" when absent)
InvoiceStatusInputs == InvoiceStatus \cup {""}

\* body.amount left undefined
NoAmount == -1

\* body.amount, in whole currency units
AmountInputs == {NoAmount} \cup (1 .. MaxAmount)

\* Math.round(body.amount * 100): the amount in cents
Cents(amount) == amount * 100

\* an invoice row that does not exist
NoInvoice == [status |-> "NONE", amount |-> 0]

(* ---------------------------- role gate -------------------------------- *)
NoRoles == {}

requireTeamLead == {"ADMIN", "TEAM_LEAD"}

\* req.user left undefined: no authentication middleware has set it
NoUser == "NO_USER"

\* requireRole with the role test dropped: it always calls next()
requireRole_AlwaysNext(allowedRoles, role) ==
  [code |-> 0, required |-> NoRoles, current |-> "", next |-> TRUE]

\* requireRole without its test of req.user: an absent user is answered as
\* a user whose role is not allowed
requireRole_NoUserTest(allowedRoles, role) ==
  IF role \in allowedRoles
    THEN [code |-> 0, required |-> NoRoles, current |-> "", next |-> TRUE]
    ELSE [code |-> 403, required |-> allowedRoles, current |-> role, next |-> FALSE]

\* requireRole(allowedRoles) applied to a request whose req.user has the
\* given role (NoUser when req.user is absent): the response it sends, code
\* 0 when it sends none, and whether it calls next()
requireRole(allowedRoles, role) ==
  IF role = NoUser
    THEN [code |-> 401, required |-> NoRoles, current |-> "", next |-> FALSE]
  ELSE IF role \in allowedRoles
    THEN [code |-> 0, required |-> NoRoles, current |-> "", next |-> TRUE]
    ELSE [code |-> 403, required |-> allowedRoles, current |-> role, next |-> FALSE]

(* ---------------------------- ledger ----------------------------------- *)
\* status.toLowerCase().replace('_', '-') : only the first '_' is replaced
StatusText(s) ==
  CASE s = "PENDING" -> "pending"
    [] s = "ESTIMATE_READY" -> "estimate-ready"
    [] s = "APPROVED" -> "approved"
    [] s = "IN_CONSTRUCTION" -> "in-construction"
    [] s = "CHANGE_ORDER_PENDING" -> "change-order_pending"
    [] s = "COMPLETED" -> "completed"
    [] OTHER -> "cancelled"

\* the fallback written whatever the name is
DisplayName_FallbackOnly(q, fallback) == fallback

\* req.user!.name || fallback, for the request q: req.user is the user row
\* as authenticateToken read it when the request arrived
DisplayName(q, fallback) ==
  IF q.name = "" THEN fallback ELSE q.name

\* the row created: date is new Date(), the clock's reading
createTimelineEvent(projectId, event, type, user) ==
  [projectId |-> projectId, date |-> now, event |-> event, type |-> type,
   user |-> user]

\* the events of project p in the ledger tl, in insertion order
EventsOf(tl, p) == SelectSeq(tl, LAMBDA e : e.projectId = p)

\* the request q after the event it created is stored
Logged(q, ev) == [q EXCEPT !.evs = Append(q.evs, ev)]

(* ---------------------------- estimate series -------------------------- *)
SeriesOf(p) == SelectSeq(estimates, LAMBDA e : e.projectId = p)

CONsOf(p) == {estimates[i].changeOrderNumber :
                i \in {j \in 1 .. Len(estimates) : estimates[j].projectId = p}}

SetMax(S) == CHOOSE m \in S : \A x \in S : x <= m

\* prisma.estimate.findFirst({where: {projectId}, orderBy: {changeOrderNumber:
\* 'desc'}})?.changeOrderNumber ; descending order lists NULL first
LatestCON(p) ==
  IF CONsOf(p) = {} THEN Null
  ELSE IF Null \in CONsOf(p) THEN Null
  ELSE SetMax(CONsOf(p))

\* (latestEstimate?.changeOrderNumber || 0) + 1
NextCON(latest) == (IF latest = Null THEN 0 ELSE latest) + 1

(* ---------------------------- requests --------------------------------- *)
\* an unused request slot.  The fields are the handler's inputs and locals
\* (name = req.user.name, seen = project.status as read, con =
\* changeOrderNumber, eid = estimate id), its response (resp, and for a 403 the role it carries and the roles
\* required), and a record of what the request did: evs = the timeline
\* events it appended, set = the status it wrote ("" for none), made = it
\* created an estimate, failed = a storage call of it was rejected.  For a
\* request on an invoice: iid = the invoice id, amount = body.amount, wrote =
\* it created, updated or deleted an invoice row.  For assignTeamMembers:
\* ids = assigneeIds, error = the message of the Error thrown, wrote = it
\* wrote the project's assignees.  For getProject: view = the timelineEvents
\* of the response.  For a middleware on its own: allowed = allowedRoles,
\* role = req.user.role (NoUser without req.user), next = it called next()
Idle ==
  [op |-> "none", pc |-> "idle", actor |-> "u1", pid |-> "p1", target |-> "",
   seen |-> "", con |-> Null, eid |-> 0, evs |-> <<>>, set |-> "",
   made |-> FALSE, failed |-> FALSE, resp |-> 0, current |-> "",
   required |-> NoRoles, iid |-> "", amount |-> NoAmount, wrote |-> FALSE,
   ids |-> <<>>, error |-> "", name |-> "", view |-> <<>>,
   allowed |-> NoRoles, role |-> "", next |-> FALSE]

Free(r) == req[r].pc = "idle"

\* a new request takes the lowest unused slot
Slot(r) == Free(r) /\ \A r2 \in Reqs : r2 < r => ~Free(r2)

\* res.status(code).json(...) : the handler ends
Respond(q, code) == [q EXCEPT !.pc = "done", !.resp = code]

\* the outcome of requireRole, with the 'required' and 'current' fields of
\* its 403
Deny(q, gate) ==
  [Respond(q, gate.code) EXCEPT !.required = gate.required, !.current = gate.current]

\* store the handler's position, or publish its response and free the slot
Commit(r, q) ==
  IF q.pc = "done"
    THEN req' = [req EXCEPT ![r] = Idle] /\ last' = q
    ELSE req' = [req EXCEPT ![r] = q] /\ UNCHANGED last

Begin(r) == Slot(r) /\ nreq < MaxRequests /\ nreq' = nreq + 1

\* the estimate series of p1 after an original estimate and one change order
Series ==
  <<[id |-> 1, projectId |-> "p1", changeOrderNumber |-> Null],
    [id |-> 2, projectId |-> "p1", changeOrderNumber |-> 1]>>

\* stored states the requests start from: the status of p1, the status of
\* p2, and how much of Series exists
Snapshots ==
  { <<"PENDING", NoProject, 0>>,
    <<"PENDING", "APPROVED", 0>>,
    <<"ESTIMATE_READY", NoProject, 1>>,
    <<"APPROVED", NoProject, 1>>,
    <<"IN_CONSTRUCTION", NoProject, 2>>,
    <<"CHANGE_ORDER_PENDING", NoProject, 2>>,
    <<"COMPLETED", NoProject, 2>> }

Init ==
  /\ users = [u \in UserIds |->
               CASE u = "u1" -> [name |-> "Alice", role |-> "ADMIN"]
                 [] u = "u2" -> [name |-> "", role |-> "TEAM_LEAD"]
                 [] OTHER -> [name |-> "Carol", role |-> "CUSTOMER"]]
  /\ \E snap \in Snapshots :
       /\ status = [p \in ProjectIds |-> IF p = "p1" THEN snap[1] ELSE snap[2]]
       /\ estimates = SubSeq(Series, 1, snap[3])
  /\ timeline = <<>>
  /\ invoices = [i \in InvoiceIds |-> NoInvoice]
  /\ assignees = [p \in ProjectIds |-> {}]
  /\ now = 0
  /\ nextId = Len(estimates) + 1
  /\ req = [r \in Reqs |-> Idle]
  /\ last = Idle
  /\ nreq = 0

(* ------------- prisma.timelineEvent.create ----------------------------- *)
\* the create written as an upsert keyed on the project: it replaces the
\* project's earlier events
StoreEvent_ReplacesProjectEvents(r, q, ev, qn) ==
  IF status[q.pid] # NoProject
    THEN /\ timeline' = Append(SelectSeq(timeline, LAMBDA e : e.projectId # ev.projectId), ev)
         /\ Commit(r, qn)
    ELSE UNCHANGED timeline /\ Commit(r, [Respond(q, 500) EXCEPT !.failed = TRUE])

\* the row ev is stored and the request goes on as qn; the create is
\* rejected when the project row is gone
StoreEvent(r, q, ev, qn) ==
  IF status[q.pid] # NoProject
    THEN timeline' = Append(timeline, ev) /\ Commit(r, qn)
    ELSE UNCHANGED timeline /\ Commit(r, [Respond(q, 500) EXCEPT !.failed = TRUE])

(* ------------- ProjectService.updateProjectStatus ---------------------- *)
\* approveEstimate answering right after the service, without its own event
AfterService_NoApprovalEvent(q) ==
  CASE q.op = "createChangeOrder" -> [q EXCEPT !.pc = "co_event"]
    [] OTHER -> Respond(q, 200)

\* where the caller of the service goes on after the service returned
AfterService(q) ==
  CASE q.op = "approveEstimate" -> [q EXCEPT !.pc = "ae_event"]
    [] q.op = "createChangeOrder" -> [q EXCEPT !.pc = "co_event"]
    [] OTHER -> Respond(q, 200)

\* the service taking a missing project for one that needs no change
ServiceRead_MissingIsNoChange(q) ==
  IF status[q.pid] = NoProject \/ status[q.pid] = q.target
    THEN AfterService([q EXCEPT !.seen = status[q.pid]])
  ELSE [q EXCEPT !.seen = status[q.pid], !.pc = "ups_write"]

\* the service without its 'No change needed' return
ServiceRead_NoShortcut(q) ==
  IF status[q.pid] = NoProject THEN Respond(q, 500)
  ELSE [q EXCEPT !.seen = status[q.pid], !.pc = "ups_write"]

\* findUnique, 'Project not found', and the no-change return
ServiceRead(q) ==
  IF status[q.pid] = NoProject THEN Respond(q, 500)
  ELSE IF status[q.pid] = q.target
    THEN AfterService([q EXCEPT !.seen = status[q.pid]])
  ELSE [q EXCEPT !.seen = status[q.pid], !.pc = "ups_write"]

\* the row update accepts a status of the enum on a row that exists
UpdateAccepted(p, s) == status[p] # NoProject /\ s \in ProjectStatus

ups_read(r) ==
  /\ req[r].pc = "ups_read"
  /\ Commit(r, ServiceRead(req[r]))
  /\ UNCHANGED <<now, assignees, invoices, users, status, timeline, estimates, nextId, nreq>>

\* the update written without its where clause: every project row gets
\* the status
ups_write_AllRows(r) ==
  /\ req[r].pc = "ups_write"
  /\ LET q == req[r]
     IN IF UpdateAccepted(q.pid, q.target)
          THEN /\ status' = [p \in ProjectIds |->
                               IF status[p] = NoProject THEN NoProject ELSE q.target]
               /\ Commit(r, [q EXCEPT !.pc = "ups_event", !.set = q.target])
          ELSE /\ UNCHANGED status
               /\ Commit(r, [Respond(q, 500) EXCEPT !.failed = TRUE])
  /\ UNCHANGED <<now, assignees, invoices, users, timeline, estimates, nextId, nreq>>

\* prisma.project.update({where: {id}, data: {status, updatedAt}})
ups_write(r) ==
  /\ req[r].pc = "ups_write"
  /\ LET q == req[r]
     IN IF UpdateAccepted(q.pid, q.target)
          THEN /\ status' = [status EXCEPT ![q.pid] = q.target]
               /\ Commit(r, [q EXCEPT !.pc = "ups_event", !.set = q.target])
          ELSE /\ UNCHANGED status
               /\ Commit(r, [Respond(q, 500) EXCEPT !.failed = TRUE])
  /\ UNCHANGED <<now, assignees, invoices, users, timeline, estimates, nextId, nreq>>

\* the name the caller of the service passes: req.user!.name || 'Customer'
\* in approveEstimate, req.user!.name || 'System' elsewhere
ServiceUser(q) ==
  DisplayName(q, IF q.op = "approveEstimate" THEN "Customer" ELSE "System")

\* createTimelineEvent('Status changed to ...') and the return to the caller
ups_event(r) ==
  /\ req[r].pc = "ups_event"
  /\ LET q == req[r]
         ev == createTimelineEvent(q.pid, "Status changed to " \o StatusText(q.target),
                                   "APPROVED", ServiceUser(q))
     IN StoreEvent(r, q, ev, AfterService(Logged(q, ev)))
  /\ UNCHANGED <<now, assignees, invoices, users, status, estimates, nextId, nreq>>

(* ------------- PATCH /:id/status --------------------------------------- *)
\* requireTeamLead, the 'Status is required' check, and the service's read
updateProjectStatus(r, u, p, s) ==
  /\ Begin(r)
  /\ LET q0 == [Idle EXCEPT !.op = "setStatus", !.actor = u, !.name = users[u].name]
         q == [q0 EXCEPT !.pid = p, !.target = s]
         gate == requireRole(requireTeamLead, users[u].role)
     IN Commit(r, IF gate.code # 0 THEN Deny(q0, gate)
                  ELSE IF s = "" THEN Respond(q0, 400)
                  ELSE ServiceRead(q))
  /\ UNCHANGED <<now, assignees, invoices, users, status, timeline, estimates, nextId>>

(* ------------- POST /:id/approve-estimate ------------------------------ *)
approveEstimate(r, u, p) ==
  /\ Begin(r)
  /\ Commit(r, ServiceRead([Idle EXCEPT !.op = "approveEstimate", !.actor = u, !.name = users[u].name,
                                        !.pid = p, !.target = "APPROVED"]))
  /\ UNCHANGED <<now, assignees, invoices, users, status, timeline, estimates, nextId>>

\* createTimelineEvent(id, 'Estimate approved by customer', ...)
ae_event(r) ==
  /\ req[r].pc = "ae_event"
  /\ LET q == req[r]
         ev == createTimelineEvent(q.pid, "Estimate approved by customer",
                                   "APPROVED", DisplayName(q, "Customer"))
     IN StoreEvent(r, q, ev, Respond(Logged(q, ev), 200))
  /\ UNCHANGED <<now, assignees, invoices, users, status, estimates, nextId, nreq>>

(* ------------- prisma.estimate.create ---------------------------------- *)
\* the row is stored with a fresh id; rejected when the project row is gone
StoreEstimate(r, q, pcNext) ==
  IF status[q.pid] # NoProject
    THEN /\ estimates' = Append(estimates,
               [id |-> nextId, projectId |-> q.pid, changeOrderNumber |-> q.con])
         /\ nextId' = nextId + 1
         /\ Commit(r, [q EXCEPT !.eid = nextId, !.made = TRUE, !.pc = pcNext])
    ELSE /\ UNCHANGED <<estimates, nextId>>
         /\ Commit(r, [Respond(q, 500) EXCEPT !.failed = TRUE])

(* ------------- POST /:id/change-order ---------------------------------- *)
\* requireTeamLead and the findFirst of the latest change order number
createChangeOrder(r, u, p) ==
  /\ Begin(r)
  /\ LET q0 == [Idle EXCEPT !.op = "createChangeOrder", !.actor = u, !.name = users[u].name]
         q == [q0 EXCEPT !.pid = p, !.target = "CHANGE_ORDER_PENDING"]
         gate == requireRole(requireTeamLead, users[u].role)
     IN Commit(r, IF gate.code # 0 THEN Deny(q0, gate)
                  ELSE [q EXCEPT !.con = NextCON(LatestCON(p)), !.pc = "co_create"])
  /\ UNCHANGED <<now, assignees, invoices, users, status, timeline, estimates, nextId>>

\* prisma.estimate.create({data: {projectId, changeOrderNumber, ...}})
co_create(r) ==
  /\ req[r].pc = "co_create"
  /\ StoreEstimate(r, req[r], "ups_read")
  /\ UNCHANGED <<now, assignees, invoices, users, status, timeline, nreq>>

\* createTimelineEvent(id, 'Change order #n created: ...', CHANGE_ORDER, ...)
co_event(r) ==
  /\ req[r].pc = "co_event"
  /\ LET q == req[r]
         ev == createTimelineEvent(q.pid,
                                   "Change order #" \o ToString(q.con) \o " created",
                                   "CHANGE_ORDER", DisplayName(q, "System"))
     IN StoreEvent(r, q, ev, Respond(Logged(q, ev), 201))
  /\ UNCHANGED <<now, assignees, invoices, users, status, estimates, nextId, nreq>>

(* ------------- POST /estimates ----------------------------------------- *)
\* the project lookup; n is body.changeOrderNumber (Null when absent)
createEstimate(r, u, p, n) ==
  /\ Begin(r)
  /\ LET q == [Idle EXCEPT !.op = "createEstimate", !.actor = u, !.name = users[u].name, !.pid = p,
                           !.target = "ESTIMATE_READY", !.con = n]
     IN Commit(r, IF status[p] = NoProject THEN Respond(q, 404)
                  ELSE [q EXCEPT !.seen = status[p], !.pc = "ce_create"])
  /\ UNCHANGED <<now, assignees, invoices, users, status, timeline, estimates, nextId>>

\* prisma.estimate.create({data: {projectId, changeOrderNumber: body.changeOrderNumber}})
ce_create(r) ==
  /\ req[r].pc = "ce_create"
  /\ StoreEstimate(r, req[r], "ce_status")
  /\ UNCHANGED <<now, assignees, invoices, users, status, timeline, nreq>>

\* prisma.project.update({where: {id}, data: {status: 'ESTIMATE_READY'}})
ce_status(r) ==
  /\ req[r].pc = "ce_status"
  /\ LET q == req[r]
     IN IF UpdateAccepted(q.pid, "ESTIMATE_READY")
          THEN /\ status' = [status EXCEPT ![q.pid] = "ESTIMATE_READY"]
               /\ Commit(r, [q EXCEPT !.pc = "ce_event", !.set = "ESTIMATE_READY"])
          ELSE /\ UNCHANGED status
               /\ Commit(r, [Respond(q, 500) EXCEPT !.failed = TRUE])
  /\ UNCHANGED <<now, assignees, invoices, users, timeline, estimates, nextId, nreq>>

\* createTimelineEvent(projectId, 'Estimate created: ...', ESTIMATE, ...)
ce_event(r) ==
  /\ req[r].pc = "ce_event"
  /\ LET q == req[r]
         ev == createTimelineEvent(q.pid, "Estimate created", "ESTIMATE",
                                   DisplayName(q, "Estimator"))
     IN StoreEvent(r, q, ev, Respond(Logged(q, ev), 201))
  /\ UNCHANGED <<now, assignees, invoices, users, status, estimates, nextId, nreq>>

(* ------------- PUT /estimates/:id -------------------------------------- *)
EstimateIds == {estimates[i].id : i \in 1 .. Len(estimates)}

\* prisma.estimate.update({where: {id}, data: updateData}); n is
\* body.changeOrderNumber, written when it is not undefined
updateEstimate(r, e, n) ==
  /\ Begin(r)
  /\ LET q == [Idle EXCEPT !.op = "updateEstimate", !.eid = e, !.con = n]
     IN IF e \in EstimateIds
          THEN /\ estimates' = [i \in 1 .. Len(estimates) |->
                    IF estimates[i].id = e /\ n # Null
                      THEN [estimates[i] EXCEPT !.changeOrderNumber = n]
                      ELSE estimates[i]]
               /\ Commit(r, Respond(q, 200))
          ELSE /\ UNCHANGED estimates
               /\ Commit(r, [Respond(q, 500) EXCEPT !.failed = TRUE])
  /\ UNCHANGED <<now, assignees, invoices, users, status, timeline, nextId>>

(* ------------- DELETE /estimates/:id ----------------------------------- *)
deleteEstimate(r, e) ==
  /\ Begin(r)
  /\ LET q == [Idle EXCEPT !.op = "deleteEstimate", !.eid = e]
     IN Commit(r, IF e \in EstimateIds THEN [q EXCEPT !.pc = "de_delete"]
                  ELSE Respond(q, 404))
  /\ UNCHANGED <<now, assignees, invoices, users, status, timeline, estimates, nextId>>

\* prisma.estimate.delete({where: {id}})
de_delete(r) ==
  /\ req[r].pc = "de_delete"
  /\ LET q == req[r]
     IN IF q.eid \in EstimateIds
          THEN /\ estimates' = SelectSeq(estimates, LAMBDA x : x.id # q.eid)
               /\ Commit(r, Respond(q, 200))
          ELSE /\ UNCHANGED estimates
               /\ Commit(r, [Respond(q, 500) EXCEPT !.failed = TRUE])
  /\ UNCHANGED <<now, assignees, invoices, users, status, timeline, nextId, nreq>>

(* ------------- PUT /:id  (project controller) -------------------------- *)
\* the findUnique of the existing project; s is body.status ("" when absent)
updateProject(r, u, p, s) ==
  /\ Begin(r)
  /\ LET q == [Idle EXCEPT !.op = "updateProject", !.actor = u, !.name = users[u].name, !.pid = p, !.target = s]
     IN Commit(r, IF status[p] = NoProject THEN Respond(q, 404)
                  ELSE [q EXCEPT !.seen = status[p], !.pc = "up_update"])
  /\ UNCHANGED <<now, assignees, invoices, users, status, timeline, estimates, nextId>>

\* prisma.project.update({where: {id}, data: updateData}), where
\* updateData.status is set if (body.status); then the test
\* body.status && body.status !== existingProject.status
up_update(r) ==
  /\ req[r].pc = "up_update"
  /\ LET q == req[r]
         go(x) == IF q.target # "" /\ q.target # q.seen
                    THEN [x EXCEPT !.pc = "up_event"] ELSE Respond(x, 200)
     IN IF q.target = ""
          THEN /\ UNCHANGED status
               /\ Commit(r, IF status[q.pid] # NoProject THEN go(q)
                            ELSE [Respond(q, 500) EXCEPT !.failed = TRUE])
          ELSE IF UpdateAccepted(q.pid, q.target)
            THEN /\ status' = [status EXCEPT ![q.pid] = q.target]
                 /\ Commit(r, go([q EXCEPT !.set = q.target]))
            ELSE /\ UNCHANGED status
                 /\ Commit(r, [Respond(q, 500) EXCEPT !.failed = TRUE])
  /\ UNCHANGED <<now, assignees, invoices, users, timeline, estimates, nextId, nreq>>

\* createTimelineEvent(project.id, `Status changed to ${body.status}`, ...)
up_event(r) ==
  /\ req[r].pc = "up_event"
  /\ LET q == req[r]
         ev == createTimelineEvent(q.pid, "Status changed to " \o q.target,
                                   "APPROVED", DisplayName(q, "System"))
     IN StoreEvent(r, q, ev, Respond(Logged(q, ev), 200))
  /\ UNCHANGED <<now, assignees, invoices, users, status, estimates, nextId, nreq>>

(* ------------- DELETE /:id  (project controller) ----------------------- *)
\* the findUnique of the project and the test that refuses a project in
\* IN_CONSTRUCTION or COMPLETED
deleteProject(r, p) ==
  /\ Begin(r)
  /\ LET q == [Idle EXCEPT !.op = "deleteProject", !.pid = p]
         qs == [q EXCEPT !.seen = status[p]]
     IN Commit(r, IF status[p] = NoProject THEN Respond(q, 404)
                  ELSE IF status[p] \in {"IN_CONSTRUCTION", "COMPLETED"}
                    THEN Respond(qs, 400)
                  ELSE [qs EXCEPT !.pc = "dp_delete"])
  /\ UNCHANGED <<now, assignees, invoices, users, status, timeline, estimates, nextId>>

\* the rows that refer to a project keep it from being deleted: timeline
\* events are never removed, and neither is the estimate series
ProjectDeletable(p) ==
  /\ status[p] # NoProject
  /\ \A i \in 1 .. Len(timeline) : timeline[i].projectId # p
  /\ \A i \in 1 .. Len(estimates) : estimates[i].projectId # p

\* prisma.project.delete({where: {id}})
dp_delete(r) ==
  /\ req[r].pc = "dp_delete"
  /\ LET q == req[r]
     IN IF ProjectDeletable(q.pid)
          THEN /\ status' = [status EXCEPT ![q.pid] = NoProject]
               /\ Commit(r, Respond(q, 200))
          ELSE /\ UNCHANGED status
               /\ Commit(r, [Respond(q, 500) EXCEPT !.failed = TRUE])
  /\ UNCHANGED <<now, assignees, invoices, users, timeline, estimates, nextId, nreq>>

(* ------------- POST /invoices ------------------------------------------ *)
\* the invoice ids not in use
FreeInvoiceIds == {i \in InvoiceIds : invoices[i] = NoInvoice}

\* prisma.invoice.create({data: {amount: Math.round(body.amount * 100),
\* status: InvoiceStatus.PENDING, ...}}), for a body without projectId
createInvoice(r, a) ==
  /\ Begin(r)
  /\ a # NoAmount
  /\ FreeInvoiceIds # {}
  /\ LET i == IF "i1" \in FreeInvoiceIds THEN "i1" ELSE "i2"
     IN /\ invoices' = [invoices EXCEPT ![i] = [status |-> "PENDING", amount |-> Cents(a)]]
        /\ Commit(r, Respond([Idle EXCEPT !.op = "createInvoice", !.iid = i,
                                          !.amount = a, !.wrote = TRUE], 201))
  /\ UNCHANGED <<now, assignees, users, status, timeline, estimates, nextId>>

(* ------------- PUT /invoices/:id --------------------------------------- *)
\* updateData: status if (body.status), amount if (body.amount !== undefined)
UpdatedInvoice(inv, s, a) ==
  [status |-> IF s # "" THEN s ELSE inv.status,
   amount |-> IF a # NoAmount THEN Cents(a) ELSE inv.amount]

\* prisma.invoice.update({where: {id}, data: updateData})
updateInvoice(r, i, s, a) ==
  /\ Begin(r)
  /\ LET q == [Idle EXCEPT !.op = "updateInvoice", !.iid = i, !.target = s, !.amount = a]
     IN IF invoices[i] # NoInvoice
          THEN /\ invoices' = [invoices EXCEPT ![i] = UpdatedInvoice(invoices[i], s, a)]
               /\ Commit(r, Respond([q EXCEPT !.seen = invoices[i].status,
                                              !.wrote = TRUE], 200))
          ELSE /\ UNCHANGED invoices
               /\ Commit(r, [Respond(q, 500) EXCEPT !.failed = TRUE])
  /\ UNCHANGED <<now, assignees, users, status, timeline, estimates, nextId>>

(* ------------- DELETE /invoices/:id ------------------------------------ *)
\* the handler without its 'Cannot delete paid invoice' test
InvoiceRead_NoPaidGuard(q) ==
  IF invoices[q.iid] = NoInvoice THEN Respond(q, 404)
  ELSE [q EXCEPT !.seen = invoices[q.iid].status, !.pc = "di_delete"]

\* findUnique, 'Invoice not found', 'Cannot delete paid invoice'
InvoiceRead(q) ==
  IF invoices[q.iid] = NoInvoice THEN Respond(q, 404)
  ELSE IF invoices[q.iid].status = "PAID"
    THEN Respond([q EXCEPT !.seen = invoices[q.iid].status], 400)
  ELSE [q EXCEPT !.seen = invoices[q.iid].status, !.pc = "di_delete"]

deleteInvoice(r, i) ==
  /\ Begin(r)
  /\ Commit(r, InvoiceRead([Idle EXCEPT !.op = "deleteInvoice", !.iid = i]))
  /\ UNCHANGED <<now, assignees, invoices, users, status, timeline, estimates, nextId>>

\* prisma.invoice.delete({where: {id}})
di_delete(r) ==
  /\ req[r].pc = "di_delete"
  /\ LET q == req[r]
     IN IF invoices[q.iid] # NoInvoice
          THEN /\ invoices' = [invoices EXCEPT ![q.iid] = NoInvoice]
               /\ Commit(r, Respond([q EXCEPT !.wrote = TRUE], 200))
          ELSE /\ UNCHANGED invoices
               /\ Commit(r, [Respond(q, 500) EXCEPT !.failed = TRUE])
  /\ UNCHANGED <<now, assignees, users, status, timeline, estimates, nextId, nreq>>

(* ------------- PUT /admin/projects/:id --------------------------------- *)
requireAdmin == {"ADMIN"}

\* updateProjectSchema.status : z.enum([...]).optional()
updateProjectSchemaStatus ==
  {"PENDING", "IN_PROGRESS", "ESTIMATE_READY", "APPROVED", "IN_CONSTRUCTION",
   "COMPLETED", "CANCELLED"}

\* values an administrator can put in the status field ("" when absent)
AdminStatusInputs == StatusInputs \cup {"IN_PROGRESS"}

\* requireAdmin, the findUnique of the project, and safeValidateData
adminUpdateProject(r, u, p, s) ==
  /\ Begin(r)
  /\ LET q0 == [Idle EXCEPT !.op = "adminUpdateProject", !.actor = u, !.name = users[u].name]
         q == [q0 EXCEPT !.pid = p, !.target = s]
         gate == requireRole(requireAdmin, users[u].role)
     IN Commit(r, IF gate.code # 0 THEN Deny(q0, gate)
                  ELSE IF status[p] = NoProject THEN Respond(q, 404)
                  ELSE IF s # "" /\ s \notin updateProjectSchemaStatus
                    THEN Respond([q EXCEPT !.seen = status[p]], 400)
                  ELSE [q EXCEPT !.seen = status[p], !.pc = "aup_update"])
  /\ UNCHANGED <<now, assignees, invoices, users, status, timeline, estimates, nextId>>

\* prisma.project.update({where: {id}, data: updateData}), where
\* updateData.status is set if (data.status); no timeline event follows
aup_update(r) ==
  /\ req[r].pc = "aup_update"
  /\ LET q == req[r]
     IN IF q.target = ""
          THEN /\ UNCHANGED status
               /\ Commit(r, IF status[q.pid] # NoProject THEN Respond(q, 200)
                            ELSE [Respond(q, 500) EXCEPT !.failed = TRUE])
          ELSE IF UpdateAccepted(q.pid, q.target)
            THEN /\ status' = [status EXCEPT ![q.pid] = q.target]
                 /\ Commit(r, Respond([q EXCEPT !.set = q.target], 200))
            ELSE /\ UNCHANGED status
                 /\ Commit(r, [Respond(q, 500) EXCEPT !.failed = TRUE])
  /\ UNCHANGED <<now, assignees, invoices, users, timeline, estimates, nextId, nreq>>

(* ------------- POST /admin/projects/:id/estimate ----------------------- *)
\* requireAdmin, the findUnique of the project, and the 'No file uploaded'
\* test; file tells whether req.file is present
uploadEstimate(r, u, p, file) ==
  /\ Begin(r)
  /\ LET q0 == [Idle EXCEPT !.op = "uploadEstimate", !.actor = u, !.name = users[u].name]
         q == [q0 EXCEPT !.pid = p, !.target = "ESTIMATE_READY"]
         gate == requireRole(requireAdmin, users[u].role)
     IN Commit(r, IF gate.code # 0 THEN Deny(q0, gate)
                  ELSE IF status[p] = NoProject THEN Respond(q, 404)
                  ELSE IF ~file THEN Respond([q EXCEPT !.seen = status[p]], 400)
                  ELSE [q EXCEPT !.seen = status[p], !.pc = "ue_upload"])
  /\ UNCHANGED <<now, assignees, invoices, users, status, timeline, estimates, nextId>>

\* supabaseService.uploadFile(...) and getFileUrl(...)
ue_upload(r) ==
  /\ req[r].pc = "ue_upload"
  /\ Commit(r, [req[r] EXCEPT !.pc = "ue_create"])
  /\ UNCHANGED <<now, assignees, invoices, users, status, timeline, estimates, nextId, nreq>>

\* prisma.estimate.create({data: {projectId: id, amount, currency, fileUrl}})
ue_create(r) ==
  /\ req[r].pc = "ue_create"
  /\ StoreEstimate(r, req[r], "ue_status")
  /\ UNCHANGED <<now, assignees, invoices, users, status, timeline, nreq>>

\* prisma.project.update({where: {id}, data: {status: 'ESTIMATE_READY'}})
\* and the 201; no timeline event is written
ue_status(r) ==
  /\ req[r].pc = "ue_status"
  /\ LET q == req[r]
     IN IF UpdateAccepted(q.pid, "ESTIMATE_READY")
          THEN /\ status' = [status EXCEPT ![q.pid] = "ESTIMATE_READY"]
               /\ Commit(r, Respond([q EXCEPT !.set = "ESTIMATE_READY"], 201))
          ELSE /\ UNCHANGED status
               /\ Commit(r, [Respond(q, 500) EXCEPT !.failed = TRUE])
  /\ UNCHANGED <<now, assignees, invoices, users, timeline, estimates, nextId, nreq>>

(* ------------- ProjectService.assignTeamMembers ------------------------ *)
\* a user id no row has
NoSuchUser == "u9"

\* assigneeIds: lists of user ids, with repetitions and unknown ids
AssigneeLists ==
  UNION {[1 .. n -> {"u1", "u2", NoSuchUser}] : n \in 0 .. MaxAssignees}

Range(seq) == {seq[i] : i \in 1 .. Len(seq)}

\* throw new Error(message)
Throw(q, message) == [Respond(q, 500) EXCEPT !.error = message]

\* prisma.user.findMany({where: {id: {in: assigneeIds}}}): one row for each
\* existing user among the ids
FoundAssignees(assigneeIds) == Range(assigneeIds) \cap UserIds

\* the findUnique of the project; user is the name the caller passes
assignTeamMembers(r, u, p, assigneeIds) ==
  /\ Begin(r)
  /\ LET q == [Idle EXCEPT !.op = "assignTeamMembers", !.actor = u, !.name = users[u].name, !.pid = p,
                           !.ids = assigneeIds]
     IN Commit(r, IF status[p] = NoProject THEN Throw(q, "Project not found")
                  ELSE [q EXCEPT !.seen = status[p], !.pc = "atm_users"])
  /\ UNCHANGED <<now, assignees, invoices, users, status, timeline, estimates, nextId>>

\* findMany of the assignees and the test
\* assignees.length !== assigneeIds.length
atm_users(r) ==
  /\ req[r].pc = "atm_users"
  /\ LET q == req[r]
     IN Commit(r, IF Cardinality(FoundAssignees(q.ids)) # Len(q.ids)
                    THEN Throw(q, "One or more assignees not found")
                    ELSE [q EXCEPT !.pc = "atm_update"])
  /\ UNCHANGED <<now, assignees, invoices, users, status, timeline, estimates, nextId, nreq>>

\* prisma.project.update({data: {assignees: {set: assigneeIds.map(...)}}})
atm_update(r) ==
  /\ req[r].pc = "atm_update"
  /\ LET q == req[r]
     IN IF status[q.pid] # NoProject
          THEN /\ assignees' = [assignees EXCEPT ![q.pid] = Range(q.ids)]
               /\ Commit(r, [q EXCEPT !.wrote = TRUE, !.pc = "atm_event"])
          ELSE /\ UNCHANGED assignees
               /\ Commit(r, [Respond(q, 500) EXCEPT !.failed = TRUE])
  /\ UNCHANGED <<now, invoices, users, status, timeline, estimates, nextId, nreq>>

\* createTimelineEvent(projectId, 'Assigned team members: ...', ASSIGNED,
\* user) and the return; the names joined into the text are left out
atm_event(r) ==
  /\ req[r].pc = "atm_event"
  /\ LET q == req[r]
         ev == createTimelineEvent(q.pid, "Assigned team members", "ASSIGNED", q.name)
     IN StoreEvent(r, q, ev, Respond(Logged(q, ev), 200))
  /\ UNCHANGED <<now, assignees, invoices, users, status, estimates, nextId, nreq>>

(* ------------- PUT /users/:id ------------------------------------------ *)
\* body.name left undefined
NoName == "UNDEFINED"

\* body.name
NameInputs == {NoName, "", "Bob"}

\* the rename carried into the ledger, as if TimelineEvent.user referred to
\* the user row
updateUser_RenamesEvents(r, id, name) ==
  /\ Begin(r)
  /\ LET q == [Idle EXCEPT !.op = "updateUser", !.actor = id, !.name = name]
     IN IF id \in UserIds
          THEN /\ users' = [users EXCEPT ![id].name =
                              IF name # NoName THEN name ELSE users[id].name]
               /\ timeline' = [i \in 1 .. Len(timeline) |->
                    IF timeline[i].user = users[id].name /\ name # NoName
                      THEN [timeline[i] EXCEPT !.user = name] ELSE timeline[i]]
               /\ Commit(r, Respond([q EXCEPT !.wrote = TRUE], 200))
          ELSE /\ UNCHANGED <<users, timeline>>
               /\ Commit(r, [Respond(q, 500) EXCEPT !.failed = TRUE])
  /\ UNCHANGED <<now, assignees, invoices, status, estimates, nextId>>

\* prisma.user.update({where: {id}, data: updateData}), where
\* updateData.name is set if (body.name !== undefined); the record keeps the
\* user id in actor and body.name in name
updateUser(r, id, name) ==
  /\ Begin(r)
  /\ LET q == [Idle EXCEPT !.op = "updateUser", !.actor = id, !.name = name]
     IN IF id \in UserIds
          THEN /\ users' = [users EXCEPT ![id].name =
                              IF name # NoName THEN name ELSE users[id].name]
               /\ Commit(r, Respond([q EXCEPT !.wrote = TRUE], 200))
          ELSE /\ UNCHANGED users
               /\ Commit(r, [Respond(q, 500) EXCEPT !.failed = TRUE])
  /\ UNCHANGED <<now, assignees, invoices, status, timeline, estimates, nextId>>

(* ------------- GET /:id  (project controller) -------------------------- *)
\* time passes
Tick ==
  /\ now < MaxClock
  /\ now' = now + 1
  /\ UNCHANGED <<assignees, invoices, users, status, timeline, estimates, nextId, req,
                 last, nreq>>

Orderings(n) ==
  {f \in [1 .. n -> 1 .. n] : \A i, j \in 1 .. n : i # j => f[i] # f[j]}

\* timelineEvents: {orderBy: {date: 'desc'}} : the orders the store may
\* return the events of p in.  date is the only sort key, so events of equal
\* date come in any order
TimelineViews(p) ==
  LET evs == EventsOf(timeline, p)
      n == Len(evs)
  IN {[i \in 1 .. n |-> evs[f[i]]] :
        f \in {g \in Orderings(n) :
                 \A i \in 1 .. n - 1 : evs[g[i]].date >= evs[g[i + 1]].date}}

\* prisma.project.findFirst({where: {id}, include: {timelineEvents: ...}});
\* view is the timelineEvents of the response
getProject(r, u, p, view) ==
  /\ Begin(r)
  /\ LET q == [Idle EXCEPT !.op = "getProject", !.actor = u, !.name = users[u].name,
                           !.pid = p]
     IN IF status[p] = NoProject
          THEN view = <<>> /\ Commit(r, Respond(q, 404))
          ELSE /\ view \in TimelineViews(p)
               /\ Commit(r, Respond([q EXCEPT !.seen = status[p], !.view = view], 200))
  /\ UNCHANGED <<now, assignees, invoices, users, status, timeline, estimates, nextId>>

(* ------------- the middlewares on their own ---------------------------- *)
\* the Authorization header: absent, a token the identity service rejects,
\* or the token of an identity (named by the user id it belongs to)
NoToken == ""

Tokens == {NoToken, "invalid"} \cup UserIds \cup {NoSuchUser}

\* authenticateToken: 401 without a token, for a token that does not
\* verify, and for an identity with no user row; else req.user = the row
authenticateToken(token) ==
  IF token = NoToken THEN [code |-> 401, error |-> "Access token required", user |-> NoUser]
  ELSE IF token = "invalid" THEN [code |-> 401, error |-> "Invalid token", user |-> NoUser]
  ELSE IF token \notin UserIds THEN [code |-> 401, error |-> "User not found", user |-> NoUser]
  ELSE [code |-> 0, error |-> "", user |-> token]

\* router.use(authenticateToken) answering a request itself: no route of the
\* router is reached
unauthenticated(r, token) ==
  /\ Begin(r)
  /\ LET auth == authenticateToken(token)
         q == [Idle EXCEPT !.op = "authenticateToken", !.role = NoUser]
     IN /\ auth.code # 0
        /\ Commit(r, [Respond(q, auth.code) EXCEPT !.error = auth.error])
  /\ UNCHANGED <<now, assignees, invoices, users, status, timeline, estimates, nextId>>

\* the middleware requireRole(allowedRoles) called with a request whose
\* req.user is the row of user u, or absent (u = NoUser)
requireRoleCall(r, allowedRoles, u) ==
  /\ Begin(r)
  /\ LET role == IF u = NoUser THEN NoUser ELSE users[u].role
         gate == requireRole(allowedRoles, role)
         q == [Idle EXCEPT !.op = "requireRole", !.allowed = allowedRoles,
                           !.role = role, !.next = gate.next]
     IN Commit(r, Deny(q, gate))
  /\ UNCHANGED <<now, assignees, invoices, users, status, timeline, estimates, nextId>>

(* ------------- storage failure ----------------------------------------- *)
\* the awaited storage call of a request is rejected: the handler's catch
\* answers 500
StorageError(r) ==
  /\ req[r].pc # "idle"
  /\ Commit(r, [Respond(req[r], 500) EXCEPT !.failed = TRUE])
  /\ UNCHANGED <<now, assignees, invoices, users, status, timeline, estimates, nextId, nreq>>

Next ==
  \/ \E r \in Reqs, u \in UserIds, p \in ProjectIds, s \in StatusInputs :
       updateProjectStatus(r, u, p, s)
  \/ \E r \in Reqs, u \in UserIds, p \in ProjectIds : approveEstimate(r, u, p)
  \/ \E r \in Reqs, u \in UserIds, p \in ProjectIds : createChangeOrder(r, u, p)
  \/ \E r \in Reqs, u \in UserIds, p \in ProjectIds, n \in CONInputs :
       createEstimate(r, u, p, n)
  \/ \E r \in Reqs, e \in 1 .. nextId, n \in CONInputs : updateEstimate(r, e, n)
  \/ \E r \in Reqs, e \in 1 .. nextId : deleteEstimate(r, e)
  \/ \E r \in Reqs, u \in UserIds, p \in ProjectIds, s \in StatusInputs :
       updateProject(r, u, p, s)
  \/ \E r \in Reqs : ups_read(r)
  \/ \E r \in Reqs : ups_write(r)
  \/ \E r \in Reqs : ups_event(r)
  \/ \E r \in Reqs : ae_event(r)
  \/ \E r \in Reqs : co_create(r)
  \/ \E r \in Reqs : co_event(r)
  \/ \E r \in Reqs : ce_create(r)
  \/ \E r \in Reqs : ce_status(r)
  \/ \E r \in Reqs : ce_event(r)
  \/ \E r \in Reqs : de_delete(r)
  \/ \E r \in Reqs : up_update(r)
  \/ \E r \in Reqs : up_event(r)
  \/ \E r \in Reqs, p \in ProjectIds : deleteProject(r, p)
  \/ \E r \in Reqs : dp_delete(r)
  \/ \E r \in Reqs : StorageError(r)

Spec == Init /\ [][Next]_vars

(* ------------- the administrator's project routes --------------------- *)
AdminNext ==
  \/ \E r \in Reqs, u \in UserIds, p \in ProjectIds, s \in AdminStatusInputs :
       adminUpdateProject(r, u, p, s)
  \/ \E r \in Reqs, u \in UserIds, p \in ProjectIds, file \in BOOLEAN :
       uploadEstimate(r, u, p, file)
  \/ \E r \in Reqs : aup_update(r)
  \/ \E r \in Reqs : ue_upload(r)
  \/ \E r \in Reqs : ue_create(r)
  \/ \E r \in Reqs : ue_status(r)
  \/ \E r \in Reqs : StorageError(r)

AdminSpec == Init /\ [][AdminNext]_vars

(* ------------- assignTeamMembers on its own --------------------------- *)
AssignNext ==
  \/ \E r \in Reqs, u \in UserIds, p \in ProjectIds, ids \in AssigneeLists :
       assignTeamMembers(r, u, p, ids)
  \/ \E r \in Reqs : atm_users(r)
  \/ \E r \in Reqs : atm_update(r)
  \/ \E r \in Reqs : atm_event(r)
  \/ \E r \in Reqs : StorageError(r)

AssignSpec == Init /\ [][AssignNext]_vars

(* ------------- the workflow operations on two existing projects -------- *)
\* the actors and assignee lists of the workflow requests
WorkflowUsers == UserIds

WorkflowLists == {<<"u1">>, <<"u1", "u2">>, <<NoSuchUser>>}

\* p1 approved and p2 with its estimate ready, each with its original
\* estimate and the 'Project created' entry of createProject
WorkflowInit ==
  /\ now = 0
  /\ users = [u \in UserIds |->
               CASE u = "u1" -> [name |-> "Alice", role |-> "ADMIN"]
                 [] u = "u2" -> [name |-> "", role |-> "TEAM_LEAD"]
                 [] OTHER -> [name |-> "Carol", role |-> "CUSTOMER"]]
  /\ status = [p \in ProjectIds |-> IF p = "p1" THEN "APPROVED" ELSE "ESTIMATE_READY"]
  /\ estimates = <<[id |-> 1, projectId |-> "p1", changeOrderNumber |-> Null],
                   [id |-> 2, projectId |-> "p2", changeOrderNumber |-> Null]>>
  /\ timeline = <<createTimelineEvent("p1", "Project created", "CREATED", "System"),
                  createTimelineEvent("p2", "Project created", "CREATED", "System")>>
  /\ invoices = [i \in InvoiceIds |-> NoInvoice]
  /\ assignees = [p \in ProjectIds |-> IF p = "p1" THEN {} ELSE {"u2"}]
  /\ nextId = 3
  /\ req = [r \in Reqs |-> Idle]
  /\ last = Idle
  /\ nreq = 0

WorkflowNext ==
  \/ \E r \in Reqs, u \in WorkflowUsers, p \in ProjectIds, s \in StatusInputs :
       updateProjectStatus(r, u, p, s)
  \/ \E r \in Reqs, u \in WorkflowUsers, p \in ProjectIds : approveEstimate(r, u, p)
  \/ \E r \in Reqs, u \in WorkflowUsers, p \in ProjectIds : createChangeOrder(r, u, p)
  \/ \E r \in Reqs, u \in WorkflowUsers, p \in ProjectIds, n \in CONInputs :
       createEstimate(r, u, p, n)
  \/ \E r \in Reqs, u \in WorkflowUsers, p \in ProjectIds, ids \in WorkflowLists :
       assignTeamMembers(r, u, p, ids)
  \/ \E r \in Reqs : ups_read(r)
  \/ \E r \in Reqs : ups_write(r)
  \/ \E r \in Reqs : ups_event(r)
  \/ \E r \in Reqs : ae_event(r)
  \/ \E r \in Reqs : co_create(r)
  \/ \E r \in Reqs : co_event(r)
  \/ \E r \in Reqs : ce_create(r)
  \/ \E r \in Reqs : ce_status(r)
  \/ \E r \in Reqs : ce_event(r)
  \/ \E r \in Reqs : atm_users(r)
  \/ \E r \in Reqs : atm_update(r)
  \/ \E r \in Reqs : atm_event(r)
  \/ \E r \in Reqs : StorageError(r)

WorkflowSpec == WorkflowInit /\ [][WorkflowNext]_vars

(* ------------- renaming users while the ledger is written ------------- *)
RenameNext ==
  \/ \E r \in Reqs, id \in UserIds \cup {NoSuchUser}, name \in NameInputs :
       updateUser(r, id, name)
  \/ \E r \in Reqs, u \in UserIds, p \in ProjectIds, s \in StatusInputs :
       updateProjectStatus(r, u, p, s)
  \/ \E r \in Reqs, u \in UserIds, p \in ProjectIds : approveEstimate(r, u, p)
  \/ \E r \in Reqs : ups_write(r)
  \/ \E r \in Reqs : ups_event(r)
  \/ \E r \in Reqs : ae_event(r)
  \/ \E r \in Reqs : StorageError(r)

RenameSpec == Init /\ [][RenameNext]_vars

(* ------------- reading the timeline while it is written --------------- *)
\* the orders a response can list the events of some project in
AllViews == {<<>>} \cup UNION {TimelineViews(p) : p \in ProjectIds}

TimelineNext ==
  \/ Tick
  \/ \E r \in Reqs, u \in UserIds, p \in ProjectIds, view \in AllViews :
       getProject(r, u, p, view)
  \/ \E r \in Reqs, u \in UserIds, p \in ProjectIds : approveEstimate(r, u, p)
  \/ \E r \in Reqs : ups_write(r)
  \/ \E r \in Reqs : ups_event(r)
  \/ \E r \in Reqs : ae_event(r)
  \/ \E r \in Reqs : StorageError(r)

TimelineSpec == Init /\ [][TimelineNext]_vars

(* ------------- the role gate and the routes it guards ------------------ *)
GateNext ==
  \/ \E r \in Reqs, token \in Tokens : unauthenticated(r, token)
  \/ \E r \in Reqs, allowedRoles \in SUBSET UserRole, u \in UserIds \cup {NoUser} :
       requireRoleCall(r, allowedRoles, u)
  \/ \E r \in Reqs, u \in UserIds, p \in ProjectIds, s \in StatusInputs :
       updateProjectStatus(r, u, p, s)
  \/ \E r \in Reqs, u \in UserIds, p \in ProjectIds : createChangeOrder(r, u, p)
  \/ \E r \in Reqs : ups_read(r)
  \/ \E r \in Reqs : ups_write(r)
  \/ \E r \in Reqs : ups_event(r)
  \/ \E r \in Reqs : co_create(r)
  \/ \E r \in Reqs : co_event(r)
  \/ \E r \in Reqs : StorageError(r)

GateSpec == Init /\ [][GateNext]_vars

(* ------------- the invoice handlers on their own ----------------------- *)
\* stored invoices the requests start from
InvoiceSnapshots ==
  { [i \in InvoiceIds |-> NoInvoice],
    [i \in InvoiceIds |-> IF i = "i1" THEN [status |-> "PAID", amount |-> Cents(1)]
                                      ELSE NoInvoice],
    [i \in InvoiceIds |-> IF i = "i1" THEN [status |-> "PENDING", amount |-> Cents(1)]
                                      ELSE [status |-> "PAID", amount |-> Cents(2)]],
    [i \in InvoiceIds |-> IF i = "i1" THEN [status |-> "OVERDUE", amount |-> Cents(2)]
                                      ELSE NoInvoice] }

InvoiceInit ==
  /\ users = [u \in UserIds |->
               CASE u = "u1" -> [name |-> "Alice", role |-> "ADMIN"]
                 [] u = "u2" -> [name |-> "", role |-> "TEAM_LEAD"]
                 [] OTHER -> [name |-> "Carol", role |-> "CUSTOMER"]]
  /\ status = [p \in ProjectIds |-> IF p = "p1" THEN "PENDING" ELSE NoProject]
  /\ estimates = <<>>
  /\ timeline = <<>>
  /\ invoices \in InvoiceSnapshots
  /\ assignees = [p \in ProjectIds |-> {}]
  /\ now = 0
  /\ nextId = 1
  /\ req = [r \in Reqs |-> Idle]
  /\ last = Idle
  /\ nreq = 0

InvoiceNext ==
  \/ \E r \in Reqs, a \in AmountInputs : createInvoice(r, a)
  \/ \E r \in Reqs, i \in InvoiceIds, s \in InvoiceStatusInputs, a \in AmountInputs :
       updateInvoice(r, i, s, a)
  \/ \E r \in Reqs, i \in InvoiceIds : deleteInvoice(r, i)
  \/ \E r \in Reqs : di_delete(r)
  \/ \E r \in Reqs : StorageError(r)

InvoiceSpec == InvoiceInit /\ [][InvoiceNext]_vars

TypeOK ==
  /\ \A p \in ProjectIds : status[p] \in ProjectStatus \cup {NoProject}
  /\ nreq \in 0 .. MaxRequests
  /\ last.resp \in {0, 200, 201, 400, 401, 403, 404, 500}
  /\ \A r \in Reqs : req[r].pc # "done"
  /\ \A u \in UserIds : users[u].role \in UserRole
  /\ \A i \in InvoiceIds : invoices[i].status \in InvoiceStatus \cup {"NONE"}

(* ======================= properties ==================================== *)
\* the edges the status state machine declares
DeclaredEdges ==
  { <<"PENDING", "ESTIMATE_READY">>, <<"ESTIMATE_READY", "APPROVED">>,
    <<"APPROVED", "IN_CONSTRUCTION">>, <<"APPROVED", "CHANGE_ORDER_PENDING">>,
    <<"IN_CONSTRUCTION", "CHANGE_ORDER_PENDING">>,
    <<"CHANGE_ORDER_PENDING", "IN_CONSTRUCTION">>,
    <<"IN_CONSTRUCTION", "COMPLETED">>, <<"CHANGE_ORDER_PENDING", "COMPLETED">> }
  \cup { <<s, "CANCELLED">> : s \in ProjectStatus \ {"COMPLETED"} }

\* a request that has ended with its response
Ended(op) == last.pc = "done" /\ last.op = op

\* C1: every change of a project's status follows an edge of the declared
\* set (a request for any other edge leaves the status unchanged).
C1_StatusFollowsDeclaredEdges ==
  [][\A p \in ProjectIds :
       status'[p] # status[p] => <<status[p], status'[p]>> \in DeclaredEdges]_vars

\* C2: a setStatus whose target is the status the project already has
\* answers success, writes no status and appends no timeline event.
C2_SameStatusIsNoop ==
  (Ended("setStatus") /\ last.seen # "" /\ last.seen = last.target)
    => (last.resp = 200 /\ last.set = "" /\ last.evs = <<>>)

C2_Witness ==
  /\ Ended("setStatus") /\ last.resp = 200
  /\ last.seen = "COMPLETED" /\ last.target = "COMPLETED"
  /\ status[last.pid] = "COMPLETED"

\* a setStatus that succeeded in changing the status
Transitioned ==
  Ended("setStatus") /\ last.resp = 200 /\ last.seen # last.target

C4_StatusAndEventTogether ==
  Ended("setStatus") => ((last.set # "") <=> (Len(last.evs) = 1))

\* C5: concurrent createChangeOrder requests on one project (whose series
\* holds no unnumbered estimate) create estimates with distinct numbers.
C5_ConcurrentNumbersDistinct ==
  \A r1, r2 \in Reqs :
    ( /\ r1 # r2
      /\ req[r1].op = "createChangeOrder" /\ req[r2].op = "createChangeOrder"
      /\ req[r1].made /\ req[r2].made
      /\ req[r1].pid = req[r2].pid
      /\ Null \notin CONsOf(req[r1].pid) )
    => req[r1].con # req[r2].con

\* C6: a transition writes its target only while the status is still the
\* one it read.
C6_NoStaleStatusWrite ==
  [][\A r \in Reqs :
       (req[r].pc = "ups_write" /\ status'[req[r].pid] # status[req[r].pid])
         => status[req[r].pid] = req[r].seen]_vars

\* 1 + max(existing changeOrderNumber of p), null and an empty series
\* counting as 0
ExpectedNextCON(p) ==
  1 + SetMax({0} \cup {IF n = Null THEN 0 ELSE n : n \in CONsOf(p)})

\* C7: the number createChangeOrder computes from the series it reads is
\* 1 + max(existing changeOrderNumber), null and empty counting as 0.
C7_NextNumberIsMaxPlusOne ==
  [][\A r \in Reqs :
       (req[r].pc = "idle" /\ req'[r].pc = "co_create")
         => req'[r].con = ExpectedNextCON(req'[r].pid)]_vars

\* the numbers of the change orders of p (the estimates numbered above 0),
\* in creation order
ChangeOrderNumbers(p) ==
  LET cos == SelectSeq(SeriesOf(p), LAMBDA e : e.changeOrderNumber > 0)
  IN [i \in 1 .. Len(cos) |-> cos[i].changeOrderNumber]

\* C8: the change order numbers of a project are unique and strictly
\* increasing in creation order, starting at 1.
C8_SeriesWellNumbered ==
  \A p \in ProjectIds :
    LET ns == ChangeOrderNumbers(p)
    IN /\ \A i, j \in 1 .. Len(ns) : i < j => ns[i] < ns[j]
       /\ Len(ns) > 0 => ns[1] = 1

\* C9: a setStatus by a customer ends with 403 carrying the customer's role
\* and the required roles, and has read no status, written no status and
\* appended no event.
C9_CustomerSetStatusForbidden ==
  (Ended("setStatus") /\ users[last.actor].role = "CUSTOMER")
    => /\ last.resp = 403
       /\ last.current = "CUSTOMER"
       /\ last.required = {"ADMIN", "TEAM_LEAD"}
       /\ last.seen = "" /\ last.set = "" /\ last.evs = <<>>

C9_Witness ==
  /\ Ended("setStatus") /\ users[last.actor].role = "CUSTOMER"
  /\ last.resp = 403
  /\ timeline = <<>>

\* C10: an approveEstimate by a customer that found the project in
\* ESTIMATE_READY, no storage call of it being rejected, answers success,
\* writes status APPROVED and appends exactly two events: the transition's
\* own entry and 'Estimate approved by customer'.
C10_ApproveWritesTwoEvents ==
  ( /\ Ended("approveEstimate")
    /\ users[last.actor].role = "CUSTOMER"
    /\ last.seen = "ESTIMATE_READY"
    /\ ~last.failed )
  => /\ last.resp = 200
     /\ last.set = "APPROVED"
     /\ Len(last.evs) = 2
     /\ last.evs[1].event = "Status changed to approved"
     /\ last.evs[2].event = "Estimate approved by customer"
     /\ \A i \in 1 .. 2 : last.evs[i].projectId = last.pid

C10_Witness ==
  /\ Ended("approveEstimate") /\ users[last.actor].role = "CUSTOMER"
  /\ last.seen = "ESTIMATE_READY" /\ last.resp = 200
  /\ status[last.pid] = "APPROVED"
  /\ timeline = last.evs /\ Len(timeline) = 2

\* C11: an approveEstimate on an existing project by an actor who is neither
\* an administrator nor a customer, no storage call of it being rejected, is
\* denied with 403 and has written no status and appended no event.
C11_ApproveDeniedToOtherRoles ==
  ( /\ Ended("approveEstimate") /\ last.seen # "" /\ ~last.failed
    /\ users[last.actor].role \notin {"ADMIN", "CUSTOMER"} )
    => (last.resp = 403 /\ last.set = "" /\ last.evs = <<>>)

\* C12: once a project's status is COMPLETED, no step changes it.
C12_CompletedIsTerminal ==
  [][\A p \in ProjectIds : status[p] = "COMPLETED" => status'[p] = "COMPLETED"]_vars

OtherNumbers(p, e) ==
  {estimates[i].changeOrderNumber :
     i \in {j \in 1 .. Len(estimates) :
              /\ estimates[j].projectId = p /\ estimates[j].id # e
              /\ estimates[j].changeOrderNumber > 0}}

\* C14: a createChangeOrder that answered 201 on a project it found in
\* APPROVED or IN_CONSTRUCTION has written CHANGE_ORDER_PENDING, created
\* one estimate carrying the next change order number (1 + the highest
\* number of the other change orders, 1 for the first), and appended the
\* transition's entry followed by a CHANGE_ORDER entry.
C14_ChangeOrderEffects ==
  ( /\ Ended("createChangeOrder") /\ last.resp = 201
    /\ last.seen \in {"APPROVED", "IN_CONSTRUCTION"} )
  => /\ last.set = "CHANGE_ORDER_PENDING"
     /\ last.made
     /\ last.con = 1 + SetMax({0} \cup OtherNumbers(last.pid, last.eid))
     /\ Len(last.evs) = 2
     /\ last.evs[1].event = "Status changed to change-order_pending"
     /\ last.evs[2].type = "CHANGE_ORDER"

\* C15: a createChangeOrder that ended with an error has created no
\* estimate, written no status and appended no event.
C15_ChangeOrderAtomic ==
  (Ended("createChangeOrder") /\ last.resp # 201)
    => (~last.made /\ last.set = "" /\ last.evs = <<>>)

\* the statuses after ESTIMATE_READY
PastEstimateReady ==
  {"APPROVED", "IN_CONSTRUCTION", "CHANGE_ORDER_PENDING", "COMPLETED"}

\* C16: a createEstimate on a project it found past ESTIMATE_READY, no
\* storage call of it being rejected, ends with an error, creates no
\* estimate, writes no status and appends no event.
C16_CreateOriginalNeedsPreEstimate ==
  (Ended("createEstimate") /\ last.seen \in PastEstimateReady /\ ~last.failed)
    => /\ last.resp \notin {200, 201}
       /\ ~last.made /\ last.set = "" /\ last.evs = <<>>

\* C17: a createEstimate on a project it found in PENDING, whatever the
\* caller supplied and no storage call of it being rejected, writes
\* ESTIMATE_READY, appends exactly one event and creates an estimate whose
\* changeOrderNumber is null or 0.
C17_CreateOriginalEffects ==
  (Ended("createEstimate") /\ last.seen = "PENDING" /\ ~last.failed)
    => /\ last.resp = 201
       /\ last.set = "ESTIMATE_READY"
       /\ Len(last.evs) = 1
       /\ last.made /\ last.con \in {Null, 0}

\* C18: a deleteInvoice that found the invoice PAID answers 400 and has
\* deleted nothing.
C18_DeletePaidRejected ==
  (Ended("deleteInvoice") /\ last.seen = "PAID")
    => (last.resp = 400 /\ ~last.wrote /\ ~last.failed)

C18_Witness ==
  /\ Ended("deleteInvoice") /\ last.seen = "PAID" /\ last.resp = 400
  /\ invoices[last.iid] = [status |-> "PAID", amount |-> Cents(1)]

\* C19: once an invoice's status is PAID, no step changes its amount or
\* its status, or removes it.
C19_PaidInvoiceImmutable ==
  [][\A i \in InvoiceIds :
       invoices[i].status = "PAID" => invoices'[i] = invoices[i]]_vars

\* C20: a setStatus to CANCELLED by an administrator or team lead on a
\* project found in a non-terminal status answers success and has written
\* CANCELLED.
C20_CancelFromNonTerminal ==
  ( /\ Ended("setStatus") /\ last.target = "CANCELLED"
    /\ users[last.actor].role \in requireTeamLead
    /\ last.seen \in ProjectStatus \ {"COMPLETED"} )
  => (last.resp = 200 /\ last.set = "CANCELLED")

\* C21: a project whose status is IN_CONSTRUCTION or COMPLETED is never
\* deleted, whatever the interleaving of deleteProject with the other
\* requests.
C21_NoDeleteWhileInProgress ==
  [][\A p \in ProjectIds :
       status[p] \in {"IN_CONSTRUCTION", "COMPLETED"} => status'[p] # NoProject]_vars

\* C22: a setStatus (by a permitted actor, with a status) or an
\* approveEstimate on a project id that does not exist ends at once with an
\* error response, and the step appends no event and changes no project.
C22_MissingProjectIsError ==
  [][\A r \in Reqs, u \in UserIds, p \in ProjectIds, s \in StatusInputs \ {""} :
       ( /\ status[p] = NoProject
         /\ \/ updateProjectStatus(r, u, p, s) /\ users[u].role \in requireTeamLead
            \/ approveEstimate(r, u, p) )
       => /\ last'.pc = "done" /\ last'.resp >= 400
          /\ last'.evs = <<>> /\ last'.set = ""
          /\ timeline' = timeline /\ status' = status]_vars

C22_Witness ==
  /\ Ended("approveEstimate") /\ last.pid = "p2" /\ status["p2"] = NoProject
  /\ last.resp = 500 /\ last.seen = "" /\ ~last.failed
  /\ timeline = <<>>

\* the entry ProjectService.updateProjectStatus appends for a transition
IsTransitionEvent(ev) ==
  \E s \in ProjectStatus : ev.event = "Status changed to " \o StatusText(s)

\* C27: when every request so far was a status transition on one project p
\* that appended its entry, and all of them have ended, the last 'Status
\* changed to ...' entry names the current status of p.
C27_LastEventNamesStatus ==
  \A p \in ProjectIds :
    ( /\ \A r \in Reqs : Free(r)
      /\ nreq >= 1 /\ Len(timeline) = nreq
      /\ \A i \in 1 .. Len(timeline) :
           timeline[i].projectId = p /\ IsTransitionEvent(timeline[i]) )
    => timeline[Len(timeline)].event = "Status changed to " \o StatusText(status[p])

\* C28: an approveEstimate that found the project already APPROVED, no
\* storage call of it being rejected, writes no status and appends no event.
C28_ApproveIdempotent ==
  (Ended("approveEstimate") /\ last.seen = "APPROVED" /\ ~last.failed)
    => (last.resp = 200 /\ last.set = "" /\ last.evs = <<>>)

\* C23: a request that has ended, no storage call of it being rejected,
\* and that wrote a status other than the one it found has appended at
\* least one timeline event of that project.
C23_StatusChangeIsLogged ==
  (last.pc = "done" /\ last.set # "" /\ last.set # last.seen /\ ~last.failed)
    => \E i \in 1 .. Len(last.evs) : last.evs[i].projectId = last.pid

\* C29: an assignTeamMembers on an existing project, no storage call of it
\* being rejected, throws 'One or more assignees not found' exactly when
\* some id of assigneeIds is no existing user; when it throws it has written
\* no assignees and appended no event; when it succeeds it has written the
\* given ids as the assignees and appended exactly one ASSIGNED event.
C29_AssignTeamMembers ==
  (Ended("assignTeamMembers") /\ ~last.failed)
    => /\ last.seen # "" =>
            ((last.error = "One or more assignees not found")
               <=> (\E i \in 1 .. Len(last.ids) : last.ids[i] \notin UserIds))
       /\ last.error # "" => (~last.wrote /\ last.evs = <<>>)
       /\ last.error = "" =>
            /\ last.wrote
            /\ Len(last.evs) = 1 /\ last.evs[1].type = "ASSIGNED"
            /\ last.evs[1].projectId = last.pid

\* the estimates of project p in the series es
EstimatesOf(es, p) == SelectSeq(es, LAMBDA e : e.projectId = p)

\* the request of slot r after a step: still in its slot, or just ended
After(r) == IF req'[r].pc = "idle" THEN last' ELSE req'[r]

\* C25: a step of a workflow request on project P leaves the status, the
\* estimate series, the ledger and the assignees of every other project
\* unchanged.
C25_OtherProjectsUntouched ==
  [][\A r \in Reqs :
       req'[r] # req[r] =>
         \A Q \in ProjectIds \ {After(r).pid} :
           /\ status'[Q] = status[Q]
           /\ EstimatesOf(estimates', Q) = EstimatesOf(estimates, Q)
           /\ EventsOf(timeline', Q) = EventsOf(timeline, Q)
           /\ assignees'[Q] = assignees[Q]]_vars

C25_Witness ==
  /\ Ended("createChangeOrder") /\ last.resp = 201 /\ last.pid = "p1"
  /\ status = [p \in ProjectIds |->
                 IF p = "p1" THEN "CHANGE_ORDER_PENDING" ELSE "ESTIMATE_READY"]
  /\ Len(EventsOf(timeline, "p1")) = 3
  /\ Len(EventsOf(timeline, "p2")) = 1 /\ Len(EstimatesOf(estimates, "p2")) = 1
  /\ assignees["p2"] = {"u2"}

\* C26: a step that renames a user leaves every existing timeline event,
\* its user field included, as it was.
C26_RenameKeepsEventUser ==
  [][users' # users =>
       /\ Len(timeline') >= Len(timeline)
       /\ SubSeq(timeline', 1, Len(timeline)) = timeline]_vars

C26_Witness ==
  /\ Ended("updateUser") /\ last.actor = "u1" /\ last.name = "Bob"
  /\ users["u1"].name = "Bob"
  /\ Len(timeline) >= 1
  /\ \A i \in 1 .. Len(timeline) : timeline[i].user = "Alice"

\* the sequence s reversed
Reverse(s) == [i \in 1 .. Len(s) |-> s[Len(s) + 1 - i]]

\* C24: a getProject that answers 200 lists the project's events newest
\* first with events of equal date in the reverse of the order in which they
\* were appended: dates never decrease along the ledger, so the list is the
\* project's events in reverse insertion order.
C24_TiesInInsertionOrder ==
  [][(nreq' # nreq /\ last'.op = "getProject" /\ last'.resp = 200)
       => last'.view = Reverse(EventsOf(timeline, last'.pid))]_vars

\* C30: a call of requireRole(allowedRoles) does exactly one of three
\* things: it calls next() and sends nothing when req.user is present and
\* its role is allowed, it answers 401 when req.user is absent, it answers
\* 403 when the role is not allowed; it never calls next() and responds as
\* well.  A setStatus or createChangeOrder that got past its gate was sent
\* by a user whose role is ADMIN or TEAM_LEAD.
C30_RequireRoleOutcomes ==
  /\ Ended("requireRole") =>
       /\ last.next <=> (last.role # NoUser /\ last.role \in last.allowed)
       /\ last.resp = 401 <=> last.role = NoUser
       /\ last.resp = 403 <=> (last.role # NoUser /\ last.role \notin last.allowed)
       /\ last.resp \in {0, 401, 403}
       /\ last.next <=> last.resp = 0
  /\ ( /\ Ended("setStatus") \/ Ended("createChangeOrder")
       /\ last.resp \notin {401, 403} )
     => users[last.actor].role \in requireTeamLead

C30_Witness ==
  /\ Ended("requireRole")
  /\ last.role = NoUser /\ last.resp = 401 /\ ~last.next
  /\ "ADMIN" \in last.allowed
====
